---- MODULE Spec2Model ----
(***************************************************************************)
(* A model of markdown-exit-s3-image: the image renderer rule of           *)
(* src/index.ts, the ImageCache of src/cache.ts and the Bitiful fetchers   *)
(* of src/bitiful.ts.                                                      *)
(*                                                                         *)
(* JavaScript strings that the code inspects (URLs, alt texts, formats,    *)
(* domains) are sequences of one-character strings, so that trim, match,   *)
(* startsWith, includes, split and decodeURIComponent are computed as the  *)
(* code computes them.  Strings the code only passes along (the data URL   *)
(* of a placeholder) are atoms.                                            *)
(***************************************************************************)
EXTENDS Integers, Sequences, FiniteSets, TLC

(***************************************************************************)
(* JavaScript values                                                       *)
(***************************************************************************)
\* `undefined` where a number is expected (parsedAlt.width, entry.width).
NoNum == -1
\* `undefined` where an opaque string is expected (entry.dataURL).
NoStr == "<undefined>"

Truthy(n) == n # NoNum /\ n # 0
TruthyStr(s) == s # NoStr /\ s # ""

(***************************************************************************)
(* String primitives                                                       *)
(***************************************************************************)
Digits == <<"0", "1", "2", "3", "4", "5", "6", "7", "8", "9">>
IsDigit(c) == \E i \in 1..10 : Digits[i] = c
DigitVal(c) == (CHOOSE i \in 1..10 : Digits[i] = c) - 1

Upper == <<"A", "B", "C", "D", "E", "F", "J", "P", "G", "S", "V", "X">>
Lower == <<"a", "b", "c", "d", "e", "f", "j", "p", "g", "s", "v", "x">>
LowerChar(c) ==
    IF \E i \in 1..Len(Upper) : Upper[i] = c
    THEN Lower[CHOOSE i \in 1..Len(Upper) : Upper[i] = c]
    ELSE c
toLowerCase(s) == [i \in 1..Len(s) |-> LowerChar(s[i])]

IsSpace(c) == c \in {" ", "\t", "\n"}

RECURSIVE TrimStart(_)
TrimStart(s) ==
    IF s # <<>> /\ IsSpace(Head(s)) THEN TrimStart(Tail(s)) ELSE s
RECURSIVE TrimEnd(_)
TrimEnd(s) ==
    IF s # <<>> /\ IsSpace(s[Len(s)])
    THEN TrimEnd(SubSeq(s, 1, Len(s) - 1))
    ELSE s
trim(s) == TrimEnd(TrimStart(s))

startsWith(s, p) == Len(p) <= Len(s) /\ SubSeq(s, 1, Len(p)) = p
endsWith(s, p) ==
    Len(p) <= Len(s) /\ SubSeq(s, Len(s) - Len(p) + 1, Len(s)) = p
includes(s, p) ==
    \E i \in 1..(Len(s) - Len(p) + 1) : SubSeq(s, i, i + Len(p) - 1) = p
\* Position of the first occurrence of p in s, 0 when there is none.
indexOf(s, p) ==
    IF includes(s, p)
    THEN CHOOSE i \in 1..(Len(s) - Len(p) + 1) :
            /\ SubSeq(s, i, i + Len(p) - 1) = p
            /\ \A j \in 1..(i - 1) : SubSeq(s, j, j + Len(p) - 1) # p
    ELSE 0
\* Position of the last occurrence of character c in s, 0 when there is none.
lastIndexOfChar(s, c) ==
    IF \E i \in 1..Len(s) : s[i] = c
    THEN CHOOSE i \in 1..Len(s) :
            s[i] = c /\ \A j \in (i + 1)..Len(s) : s[j] # c
    ELSE 0

AllDigits(s) == s # <<>> /\ \A i \in 1..Len(s) : IsDigit(s[i])

RECURSIVE parseInt(_)
parseInt(ds) ==
    IF ds = <<>> THEN 0
    ELSE 10 * parseInt(SubSeq(ds, 1, Len(ds) - 1)) + DigitVal(ds[Len(ds)])

RECURSIVE numToString(_)
numToString(n) ==
    IF n < 10 THEN <<Digits[n + 1]>>
    ELSE numToString(n \div 10) \o <<Digits[(n % 10) + 1]>>

(***************************************************************************)
(* decodeURIComponent (called by ImageCache.get and ImageCache.set)        *)
(***************************************************************************)
\* The characters with codes 32..126, in code order.
Ascii ==
   <<
      " ", "!", "\"", "#", "$", "%", "&", "'", "(", ")", "*", "+", ",", "-", ".", "/",
      "0", "1", "2", "3", "4", "5", "6", "7", "8", "9", ":", ";", "<", "=", ">", "?",
      "@", "A", "B", "C", "D", "E", "F", "G", "H", "I", "J", "K", "L", "M", "N", "O",
      "P", "Q", "R", "S", "T", "U", "V", "W", "X", "Y", "Z", "[", "\\", "]", "^", "_",
      "<backtick>", "a", "b", "c", "d", "e", "f", "g", "h", "i", "j", "k", "l", "m", "n", "o",
      "p", "q", "r", "s", "t", "u", "v", "w", "x", "y", "z", "{", "|", "}", "~"
   >>

HexDigits ==
    <<"0", "1", "2", "3", "4", "5", "6", "7", "8", "9",
      "a", "b", "c", "d", "e", "f">>
IsHex(c) == \E i \in 1..16 : HexDigits[i] = LowerChar(c)
HexVal(c) == (CHOOSE i \in 1..16 : HexDigits[i] = LowerChar(c)) - 1

\* s starts with a well-formed escape %XX.
HasEscape(s) == Len(s) >= 3 /\ s[1] = "%" /\ IsHex(s[2]) /\ IsHex(s[3])
EscapeByte(s) == 16 * HexVal(s[2]) + HexVal(s[3])

\* The character of a one-byte escape; control characters are one token.
CharOfByte(b) == IF b >= 32 /\ b <= 126 THEN Ascii[b - 31] ELSE "<ctl>"
\* The character of a two-byte UTF-8 sequence (U+0080..U+07FF), as a token
\* for the code points the modelled URLs use.
CharOfTwoBytes(b1, b2) ==
    IF b1 = 195 /\ b2 = 169 THEN "<e-acute>" ELSE "<u+80..7ff>"

URIError == [ok |-> FALSE, val |-> <<>>]

\* decodeURIComponent: ok = FALSE is the URIError it throws for an escape
\* that is not %XX or for bytes that are not UTF-8.  Lead bytes of three-
\* and four-byte sequences (0xE0..0xF4) do not occur in the modelled URLs
\* and are not decoded here.
\* The length of the escape sequence s starts with (3 for %XX below 0x80,
\* 6 for a two-byte UTF-8 sequence), 0 when s starts with no valid one.
EscapeLen(s) ==
    IF ~HasEscape(s) THEN 0
    ELSE IF EscapeByte(s) < 128 THEN 3
    ELSE IF /\ EscapeByte(s) >= 194 /\ EscapeByte(s) <= 223
            /\ HasEscape(SubSeq(s, 4, Len(s)))
            /\ EscapeByte(SubSeq(s, 4, Len(s))) >= 128
            /\ EscapeByte(SubSeq(s, 4, Len(s))) <= 191
    THEN 6
    ELSE 0

\* No escape of s is malformed.
RECURSIVE WellEscaped(_)
WellEscaped(s) ==
    IF s = <<>> THEN TRUE
    ELSE IF s[1] # "%" THEN WellEscaped(Tail(s))
    ELSE EscapeLen(s) # 0 /\ WellEscaped(SubSeq(s, EscapeLen(s) + 1, Len(s)))

\* s with its escapes replaced, for a well-escaped s.
RECURSIVE Unescaped(_)
Unescaped(s) ==
    IF s = <<>> THEN <<>>
    ELSE IF s[1] # "%" THEN <<s[1]>> \o Unescaped(Tail(s))
    ELSE IF EscapeLen(s) = 3
    THEN <<CharOfByte(EscapeByte(s))>> \o Unescaped(SubSeq(s, 4, Len(s)))
    ELSE <<CharOfTwoBytes(EscapeByte(s), EscapeByte(SubSeq(s, 4, Len(s))))>>
         \o Unescaped(SubSeq(s, 7, Len(s)))

decodeURIComponent(s) ==
    IF WellEscaped(s) THEN [ok |-> TRUE, val |-> Unescaped(s)] ELSE URIError

(***************************************************************************)
(* new URL(url): the parts the code reads (hostname, pathname)             *)
(***************************************************************************)
SchemeSep == <<":", "/", "/">>
SpecialSchemes ==
    { <<"h", "t", "t", "p">>, <<"h", "t", "t", "p", "s">>,
      <<"f", "t", "p">>, <<"w", "s">>, <<"w", "s", "s">> }
IsSchemeChar(c) == c \notin {"/", "?", "#", ":", "@", "%", " ", "|", "."}

\* First position in s of a character of set cs, Len(s) + 1 when none.
FirstOf(s, cs) ==
    IF \E i \in 1..Len(s) : s[i] \in cs
    THEN CHOOSE i \in 1..Len(s) :
            s[i] \in cs /\ \A j \in 1..(i - 1) : s[j] \notin cs
    ELSE Len(s) + 1

\* new URL(s) for absolute URLs of the shape scheme://host[:port][/path][?q][#f];
\* ok = FALSE is the TypeError it throws (no scheme, empty host).  Paths of the
\* modelled URLs have no dot segments and nothing the parser would re-encode.
ParseURL(s) ==
    LET i == indexOf(s, SchemeSep)
        scheme == toLowerCase(SubSeq(s, 1, i - 1))
        rest == SubSeq(s, i + 3, Len(s))
        e == FirstOf(rest, {"/", "?", "#"})
        authority == SubSeq(rest, 1, e - 1)
        at == lastIndexOfChar(authority, "@")
        hostport == SubSeq(authority, at + 1, Len(authority))
        host == SubSeq(hostport, 1, FirstOf(hostport, {":"}) - 1)
        tail == SubSeq(rest, e, Len(rest))
        path == SubSeq(tail, 1, FirstOf(tail, {"?", "#"}) - 1)
        bad == [ok |-> FALSE, hostname |-> <<>>, pathname |-> <<>>]
    IN  IF i <= 1 THEN bad
        ELSE IF \E j \in 1..Len(scheme) : ~IsSchemeChar(scheme[j]) THEN bad
        ELSE IF host = <<>> /\ scheme \in SpecialSchemes THEN bad
        ELSE [ok |-> TRUE,
              hostname |-> IF scheme \in SpecialSchemes
                           THEN toLowerCase(host) ELSE host,
              pathname |-> IF path = <<>> /\ scheme \in SpecialSchemes
                           THEN <<"/">> ELSE path]

\* imageUrl.split("?")[0]
BaseUrl(s) == SubSeq(s, 1, FirstOf(s, {"?"}) - 1)

(***************************************************************************)
(* parseObsidianImageAlt                                                   *)
(***************************************************************************)
IsLineTerminator(c) == c \in {"\n", "\r"}

\* The match of /^(.*?)\|(\d+)(?:x(\d+))?$/ on t.  What follows the pipe holds
\* no pipe, so the pipe of a match is the last one of t; `.` matches no line
\* terminator.  g3 = <<>> when the optional group did not take part.
AltMatch(t) ==
    LET p == lastIndexOfChar(t, "|")
        g1 == SubSeq(t, 1, p - 1)
        suffix == SubSeq(t, p + 1, Len(t))
        x == FirstOf(suffix, {"x"})
        g2 == SubSeq(suffix, 1, x - 1)
        g3 == SubSeq(suffix, x + 1, Len(suffix))
    IN  IF p = 0 \/ (\E i \in 1..Len(g1) : IsLineTerminator(g1[i]))
        THEN [ok |-> FALSE, g1 |-> <<>>, g2 |-> <<>>, g3 |-> <<>>]
        ELSE IF AllDigits(suffix)
        THEN [ok |-> TRUE, g1 |-> g1, g2 |-> suffix, g3 |-> <<>>]
        ELSE IF x <= Len(suffix) /\ AllDigits(g2) /\ AllDigits(g3)
        THEN [ok |-> TRUE, g1 |-> g1, g2 |-> g2, g3 |-> g3]
        ELSE [ok |-> FALSE, g1 |-> <<>>, g2 |-> <<>>, g3 |-> <<>>]

\* The parser returning the trimmed content when the pattern does not match.
parseObsidianImageAlt_Trimmed(content) ==
    LET m == AltMatch(trim(content))
    IN  IF ~m.ok
        THEN [alt |-> trim(content), width |-> NoNum, height |-> NoNum]
        ELSE [alt |-> trim(m.g1),
              width |-> parseInt(m.g2),
              height |-> IF m.g3 # <<>> THEN parseInt(m.g3) ELSE NoNum]

parseObsidianImageAlt(content) ==
    LET m == AltMatch(trim(content))
    IN  IF ~m.ok
        THEN [alt |-> content, width |-> NoNum, height |-> NoNum]
        ELSE [alt |-> trim(m.g1),
              width |-> parseInt(m.g2),
              height |-> IF m.g3 # <<>> THEN parseInt(m.g3) ELSE NoNum]

(***************************************************************************)
(* Options (src/types.ts, src/options.ts)                                  *)
(***************************************************************************)
\* An optional list of strings: has = FALSE is `undefined`.
NoList == [has |-> FALSE, list |-> <<>>]
SomeList(l) == [has |-> TRUE, list |-> l]
\* An optional boolean.
NoBool == [has |-> FALSE, val |-> FALSE]
SomeBool(b) == [has |-> TRUE, val |-> b]
\* cache_path: a path or null.
NoPath == [has |-> FALSE, path |-> "null"]
SomePath(p) == [has |-> TRUE, path |-> p]

DefaultSrcsetWidths == <<400, 600, 800, 1200, 2000, 3000>>
DefaultSkipFirst == 2
DefaultIgnoreFormats == << <<"s", "v", "g">> >>

\* a ?? b on optional lists
Coalesce(a, b) == IF a.has THEN a ELSE b

\* resolveOptions.  The result spreads userOptions over the defaults, so a
\* bitiful_domains the user gave is carried along and one left out
\* stays undefined: the defaults name supported_domains only.
resolveOptions(userOptions) ==
    [progressive |->
        [enable |-> IF userOptions.progressive_enable.has
                    THEN userOptions.progressive_enable.val ELSE TRUE,
         srcset_widths |-> IF userOptions.srcset_widths.has
                           THEN userOptions.srcset_widths.list
                           ELSE DefaultSrcsetWidths],
     lazy |->
        [enable |-> IF userOptions.lazy_enable.has
                    THEN userOptions.lazy_enable.val ELSE TRUE,
         skip_first |-> DefaultSkipFirst],
     supported_domains |-> Coalesce(userOptions.supported_domains, SomeList(<<>>)).list,
     ignore_formats |->
        Coalesce(userOptions.ignore_formats, SomeList(DefaultIgnoreFormats)).list,
     cache_path |-> userOptions.cache_path,
     bitiful_domains |-> userOptions.bitiful_domains]

(***************************************************************************)
(* Eligibility (src/bitiful.ts isBitifulDomain, src/index.ts)              *)
(***************************************************************************)
\* bitifulDomains.some(...) on undefined throws a TypeError inside the try:
\* the catch returns false, as it does when new URL(url) throws.
isBitifulDomain(url, bitifulDomains) ==
    LET u == ParseURL(url)
    IN  /\ u.ok
        /\ bitifulDomains.has
        /\ \E i \in 1..Len(bitifulDomains.list) :
                includes(u.hostname, bitifulDomains.list[i])

\* Called only after isBitifulDomain returned true, so new URL(url) succeeds.
shouldIgnoreFormat(url, formats) ==
    LET pathname == toLowerCase(ParseURL(url).pathname)
    IN  \E i \in 1..Len(formats) :
            endsWith(pathname, <<".">> \o toLowerCase(formats[i]))

Http == <<"h", "t", "t", "p">>

shouldHandleProgressive(src, opts, env) ==
    /\ opts.progressive.enable
    /\ src # <<>>
    /\ startsWith(src, Http)
    /\ isBitifulDomain(src, opts.bitiful_domains)
    /\ ~shouldIgnoreFormat(src, opts.ignore_formats)
    /\ env # "development"

(***************************************************************************)
(* Metadata provider (src/bitiful.ts)                                      *)
(***************************************************************************)
FmtInfo == <<"?", "f", "m", "t", "=", "i", "n", "f", "o">>
FmtThumbhash == <<"?", "f", "m", "t", "=", "t", "h", "u", "m", "b", "h", "a", "s", "h">>

DimensionRequest(imageUrl) == BaseUrl(imageUrl) \o FmtInfo
ThumbhashRequest(imageUrl) == BaseUrl(imageUrl) \o FmtThumbhash

NoDimension == [has |-> FALSE, width |-> NoNum, height |-> NoNum]

\* What fetch and response.json() can give getBitifulDimension: a rejected
\* fetch, a status that is not ok, a body that is not JSON, or a JSON body
\* whose ImageWidth/ImageHeight are numbers (num) or not.
DimensionResponses ==
    { [kind |-> "reject", num |-> FALSE, width |-> NoNum, height |-> NoNum],
      [kind |-> "status", num |-> FALSE, width |-> NoNum, height |-> NoNum],
      [kind |-> "badbody", num |-> FALSE, width |-> NoNum, height |-> NoNum],
      [kind |-> "json", num |-> FALSE, width |-> NoNum, height |-> NoNum],
      [kind |-> "json", num |-> TRUE, width |-> 1200, height |-> 800] }

getBitifulDimension(resp) ==
    IF resp.kind = "json" /\ resp.num
    THEN [has |-> TRUE, width |-> resp.width, height |-> resp.height]
    ELSE NoDimension

\* What fetch, thumbHashToDataURL and sharp can give getBitifulThumbhash: a
\* rejected fetch, a status that is not ok, a body the conversion throws on,
\* or a body it converts.
ThumbhashResponses ==
    { [kind |-> "reject", hash |-> ""],
      [kind |-> "status", hash |-> ""],
      [kind |-> "badhash", hash |-> ""],
      [kind |-> "text", hash |-> "h1"] }

\* `data:image/webp;base64,${...}`: never the empty string.
WebpDataUrl(hash) ==
    IF hash = "h1" THEN "data:image/webp;base64,W1"
    ELSE "data:image/webp;base64,W2"

\* null is NoStr.
getBitifulThumbhash(resp) ==
    IF resp.kind = "text" THEN WebpDataUrl(resp.hash) ELSE NoStr

(***************************************************************************)
(* Markup (src/index.ts generateSrcset, buildImageHTML,                    *)
(* applyDimensionToHTML, and the host's default image rule)                *)
(***************************************************************************)
SetMin(S) == CHOOSE x \in S : \A y \in S : x <= y
RECURSIVE SortAscending(_)
SortAscending(S) ==
    IF S = {} THEN <<>>
    ELSE <<SetMin(S)>> \o SortAscending(S \ {SetMin(S)})

WParamFirst == <<"?", "w", "=">>
WParamNext == <<"&", "w", "=">>

\* generateSrcset without the filter on the candidate widths.
generateSrcset_Unfiltered(src, width, srcsetWidths) ==
    LET validWidths ==
            {srcsetWidths[i] : i \in 1..Len(srcsetWidths)} \cup {width}
        sortedWidths == SortAscending(validWidths)
        url(w) == IF w = width THEN src
                  ELSE IF includes(src, <<"?">>)
                       THEN src \o WParamNext \o numToString(w)
                       ELSE src \o WParamFirst \o numToString(w)
    IN  [i \in 1..Len(sortedWidths) |->
            <<url(sortedWidths[i]), sortedWidths[i]>>]

\* The srcset as the list of its (url, width) entries.
generateSrcset(src, width, srcsetWidths) ==
    LET validWidths ==
            {srcsetWidths[i] : i \in {j \in 1..Len(srcsetWidths) :
                                        srcsetWidths[j] < width}} \cup {width}
        sortedWidths == SortAscending(validWidths)
        url(w) == IF w = width THEN src
                  ELSE IF includes(src, <<"?">>)
                       THEN src \o WParamNext \o numToString(w)
                       ELSE src \o WParamFirst \o numToString(w)
    IN  [i \in 1..Len(sortedWidths) |->
            <<url(sortedWidths[i]), sortedWidths[i]>>]

\* Math.round(n / d) for n >= 0, d > 0 (exact; the code's double arithmetic
\* agrees with it on the modelled dimensions).
RoundDiv(n, d) == (2 * n + d) \div (2 * d)

NoStyle == [width |-> NoNum, height |-> NoNum]

\* A markup string by its parts.  tag "host" is the host rule's <img>, tag
\* "img" the bare <img srcset>, tag "div" the <div class="pic"> around it.
Markup(tag, src, alt, srcset, style, maxWidth, bg, aw, ah) ==
    [tag |-> tag, src |-> src, alt |-> alt, srcset |-> srcset,
     loading |-> IF tag \in {"img", "div"} THEN "lazy" ELSE "",
     style |-> style, maxWidth |-> maxWidth, background |-> bg,
     aspectWidth |-> aw, aspectHeight |-> ah]

buildImageHTML(parsedAlt, src, opts, originalWidth, originalHeight, dataURL) ==
    LET displayWidth == IF Truthy(parsedAlt.width)
                        THEN parsedAlt.width ELSE originalWidth
        displayHeight == parsedAlt.height
        srcset == generateSrcset(src, originalWidth, opts.progressive.srcset_widths)
        aspectWidth == displayWidth
        aspectHeight == IF Truthy(displayHeight) THEN displayHeight
                        ELSE RoundDiv(originalHeight * displayWidth, originalWidth)
    IN  IF TruthyStr(dataURL)
        THEN Markup("div", src, parsedAlt.alt, srcset, NoStyle,
                    displayWidth, dataURL, aspectWidth, aspectHeight)
        ELSE Markup("img", src, parsedAlt.alt, srcset, NoStyle,
                    NoNum, NoStr, NoNum, NoNum)

\* The host's own image rule: <img src alt> from the token.
imageRule(token) ==
    Markup("host", token.src, token.content, <<>>, NoStyle,
           NoNum, NoStr, NoNum, NoNum)

\* applyDimensionToHTML that leaves the height out of the style.
applyDimensionToHTML_NoHeight(html, width, height) ==
    IF ~Truthy(width) THEN html
    ELSE [html EXCEPT !.style = [width |-> width, height |-> NoNum]]

\* The host's html always holds "<img ", so the style is put on it.
applyDimensionToHTML(html, width, height) ==
    IF ~Truthy(width) THEN html
    ELSE [html EXCEPT !.style =
            [width |-> width,
             height |-> IF Truthy(height) THEN height ELSE NoNum]]

\* The rule's promise rejecting with an error.
Rejected(token, error) ==
    Markup(error, token.src, token.content, <<>>, NoStyle,
           NoNum, NoStr, NoNum, NoNum)

(***************************************************************************)
(* ImageCache (src/cache.ts): values                                       *)
(***************************************************************************)
\* A CacheEntry by its own keys in insertion order and their values: the
\* interface's { dataURL, width, height }, the rule's { width, height,
\* dataURL }, and the documented { width, height, placeholder } a file can
\* hold.
Entry(dataURL, width, height) ==
    [keys |-> "dataURL,width,height", dataURL |-> dataURL,
     placeholder |-> NoStr, width |-> width, height |-> height]
RuleEntry(width, height, dataURL) ==
    [keys |-> "width,height,dataURL", dataURL |-> dataURL,
     placeholder |-> NoStr, width |-> width, height |-> height]
DocEntry(width, height, placeholder) ==
    [keys |-> "width,height,placeholder", dataURL |-> NoStr,
     placeholder |-> placeholder, width |-> width, height |-> height]
\* this.cache[key] of a key that is not there.
NoEntry ==
    [keys |-> "undefined", dataURL |-> NoStr, placeholder |-> NoStr,
     width |-> NoNum, height |-> NoNum]

\* JSON.stringify(entry): the members in key order; <<>> is the `undefined`
\* that JSON.stringify(undefined) returns.
StringifyEntry(e) ==
    IF e.keys = "dataURL,width,height"
    THEN << <<"dataURL">>, <<e.dataURL>>, <<"width">>, numToString(e.width),
            <<"height">>, numToString(e.height) >>
    ELSE IF e.keys = "width,height,dataURL"
    THEN << <<"width">>, numToString(e.width), <<"height">>,
            numToString(e.height), <<"dataURL">>, <<e.dataURL>> >>
    ELSE IF e.keys = "width,height,placeholder"
    THEN << <<"width">>, numToString(e.width), <<"height">>,
            numToString(e.height), <<"placeholder">>, <<e.placeholder>> >>
    ELSE <<>>

EmptyMap == [k \in {} |-> NoEntry]
MapPut(m, k, v) == [x \in (DOMAIN m) \cup {k} |-> IF x = k THEN v ELSE m[x]]

\* The value of this.cache: an object, or what JSON.parse gave for a file
\* that holds an array or a number.  props are its string-keyed properties.
JsValue(type, props) == [type |-> type, props |-> props]
EmptyObject == JsValue("object", EmptyMap)

\* this.cache[decodedKey]
Lookup(c, k) ==
    IF c.type # "number" /\ k \in DOMAIN c.props THEN c.props[k] ELSE NoEntry

\* File contents.  json: "empty" (no bytes), "garbage" (not JSON), "null",
\* "number", "array", "object"; body: the members of an object.
Text(json, body) == [json |-> json, body |-> body]
FileOf(text) == [exists |-> TRUE, readable |-> TRUE, text |-> text]
AbsentFile == [exists |-> FALSE, readable |-> FALSE, text |-> Text("empty", EmptyMap)]
UnreadableFile == [exists |-> TRUE, readable |-> FALSE, text |-> Text("empty", EmptyMap)]

\* JSON.stringify(this.cache, null, 2): an array's string-keyed properties
\* are not serialized.
Stringify(c) ==
    IF c.type = "object" THEN Text("object", c.props)
    ELSE Text(c.type, EmptyMap)

\* The value load() leaves in this.cache once readFile has settled: the
\* catch block's {} when readFile rejects, when JSON.parse throws, and when
\* Object.keys(null) throws in the log line after the assignment.
LoadedValue(f) ==
    IF ~f.exists \/ ~f.readable THEN EmptyObject
    ELSE IF f.text.json = "empty" THEN EmptyObject
    ELSE IF f.text.json \in {"garbage", "null"} THEN EmptyObject
    ELSE JsValue(f.text.json, f.text.body)

(***************************************************************************)
(* The inputs the model draws from                                         *)
(***************************************************************************)
HostCX == <<"h", "t", "t", "p", ":", "/", "/", "c", ".", "x">>
\* http://c.x/a.jpg
UrlA == HostCX \o <<"/", "a", ".", "j", "p", "g">>
\* http://c.x/a%20b.jpg and the string it decodes to
UrlEscaped == HostCX \o <<"/", "a", "%", "2", "0", "b", ".", "j", "p", "g">>
UrlDecoded == HostCX \o <<"/", "a", " ", "b", ".", "j", "p", "g">>
\* http://c.x/a%FF.jpg: an escape that is not UTF-8
UrlNotUtf8 == HostCX \o <<"/", "a", "%", "F", "F", ".", "j", "p", "g">>
\* http://c.x/b.SVG
UrlSvg == HostCX \o <<"/", "b", ".", "S", "V", "G">>
\* http://d.y/a.jpg: a host that only one of the configurations lists
HostDY == <<"h", "t", "t", "p", ":", "/", "/", "d", ".", "y">>
UrlOther == HostDY \o <<"/", "a", ".", "j", "p", "g">>
\* http://d.y.e/a.jpg: another host whose name contains a configured domain
UrlLookalike == HostDY \o <<".", "e", "/", "a", ".", "j", "p", "g">>
\* http://c.x/a.jpg?v: UrlA with a query
UrlAQuery == UrlA \o <<"?", "v">>
\* httpx://d.y/a.jpg: a scheme that is not http or https and starts like them
UrlHttpx == <<"h", "t", "t", "p", "x", ":", "/", "/", "d", ".", "y", "/", "a", ".", "j", "p", "g">>
\* ./t.png
UrlLocal == <<".", "/", "t", ".", "p", "n", "g">>

\* photo|300
AltPhoto300 == <<"p", "h", "o", "t", "o", "|", "3", "0", "0">>
\* p|300x100
AltP300x100 == <<"p", "|", "3", "0", "0", "x", "1", "0", "0">>
AltPlain == <<"p">>

Token(src, content) == [src |-> src, content |-> content]
NoToken == Token(<<>>, <<>>)

\* The image tokens of a document.
Tokens ==
    { Token(UrlA, AltPhoto300), Token(UrlA, AltPlain),
      Token(UrlAQuery, AltPlain),
      Token(UrlEscaped, AltP300x100), Token(UrlNotUtf8, AltPlain),
      Token(UrlSvg, AltPlain), Token(UrlOther, AltP300x100),
      Token(UrlLocal, AltPhoto300), Token(<<>>, AltPlain),
      Token(UrlLookalike, AltPlain), Token(UrlHttpx, AltPlain) }

DomainCX == <<"c", ".", "x">>
DomainDY == <<"d", ".", "y">>
Svg == <<"s", "v", "g">>

UserOptions(enable, widths, domains, formats, path) ==
    [progressive_enable |-> enable, srcset_widths |-> widths,
     lazy_enable |-> NoBool, supported_domains |-> NoList,
     bitiful_domains |-> domains, ignore_formats |-> formats,
     cache_path |-> path]

\* The option objects a document is rendered with: the cache test's
\* (test/index.ts, no domain list), the rendering test's (progressive off),
\* the README's usage with and without a cache file, and one with an empty
\* domain list.
UserOptionsSet ==
    { UserOptions(SomeBool(TRUE), [has |-> TRUE, list |-> <<400, 600, 800>>],
                  NoList, SomeList(<<Svg>>), SomePath("cache.json")),
      UserOptions(SomeBool(FALSE), [has |-> FALSE, list |-> <<>>],
                  SomeList(<<DomainCX>>), SomeList(<<Svg>>), SomePath("cache.json")),
      UserOptions(SomeBool(TRUE), [has |-> FALSE, list |-> <<>>],
                  SomeList(<<DomainCX, DomainDY>>), NoList, NoPath),
      UserOptions(SomeBool(TRUE), [has |-> TRUE, list |-> <<400, 600, 800>>],
                  SomeList(<<DomainCX>>), NoList, SomePath("cache.json")),
      UserOptions(SomeBool(TRUE), [has |-> FALSE, list |-> <<>>],
                  SomeList(<<>>), SomeList(<<Svg>>), NoPath) }

EntryA == Entry("data:image/webp;base64,W1", 1200, 800)
EntryB == Entry("data:image/webp;base64,W2", 600, 400)

\* The states the backing file can be in when an ImageCache is constructed.
Files ==
    { AbsentFile, UnreadableFile, FileOf(Text("garbage", EmptyMap)),
      FileOf(Text("null", EmptyMap)), FileOf(Text("number", EmptyMap)),
      FileOf(Text("array", EmptyMap)),
      FileOf(Text("object", MapPut(EmptyMap, UrlA, EntryA))) }
\* Those a document is rendered with.
PipelineFiles ==
    { AbsentFile, FileOf(Text("garbage", EmptyMap)),
      FileOf(Text("number", EmptyMap)), FileOf(Text("array", EmptyMap)),
      FileOf(Text("object", MapPut(EmptyMap, UrlA, EntryA))),
      FileOf(Text("object", MapPut(EmptyMap, UrlA,
                                   DocEntry(1200, 800, EntryA.dataURL)))) }

\* process.env.NODE_ENV
NodeEnvs == {"production", "development"}

\* What a failed writeFile can leave behind: the file as it was, or a
\* truncated one.
AfterFailedWrite(f) == {f, FileOf(Text("garbage", EmptyMap))}

(***************************************************************************)
(* Bounds                                                                  *)
(***************************************************************************)
\* Rule invocations whose promise is pending at the same time.
MaxInFlight == 1
\* cache.get calls of the rule counted in stats.
MaxLookups == 2
\* cache.get calls of a direct caller counted in stats.
MaxGets == 1
\* writeFile calls of save() pending at the same time.
MaxWrites == 1

\* The keys a direct caller of ImageCache passes.
CacheKeys == {UrlA, UrlEscaped, UrlDecoded, UrlNotUtf8}
\* The set(key, value) calls of a direct caller: both values under one key,
\* one value under each spelling of the other key, a key that does not decode.
CacheSets ==
    { <<UrlA, EntryA>>, <<UrlA, EntryB>>, <<UrlEscaped, EntryA>>,
      <<UrlDecoded, EntryA>>, <<UrlNotUtf8, EntryA>> }

\* decodeURIComponent(key), tabulated over the keys the model passes.
DecodedKey ==
    [key \in CacheKeys \cup {t.src : t \in Tokens} |-> decodeURIComponent(key)]

\* The entries the model stores or compares: a file's, a direct caller's,
\* the rule's from what the fetches can give, and the missing one.
KnownEntries ==
    {NoEntry, EntryA, EntryB, DocEntry(1200, 800, EntryA.dataURL)}
    \cup {RuleEntry(getBitifulDimension(d).width, getBitifulDimension(d).height,
                    getBitifulThumbhash(t)) :
             d \in {r \in DimensionResponses : getBitifulDimension(r).has},
             t \in {r \in ThumbhashResponses : getBitifulThumbhash(r) # NoStr}}

\* JSON.stringify(entry), tabulated over those entries.
Serialized == [e \in KnownEntries |-> StringifyEntry(e)]

\* shouldHandleProgressive, tabulated over the sources, the resolved options
\* and the environments the model draws from.
HandlesProgressive ==
    [src \in {t.src : t \in Tokens},
     opts \in {resolveOptions(userOptions) : userOptions \in UserOptionsSet},
     env \in NodeEnvs |-> shouldHandleProgressive(src, opts, env)]

(***************************************************************************)
(* ImageCache.get and ImageCache.set on a value of this.cache              *)
(***************************************************************************)
\* get looking the key up as it was passed.
ImageCache_get_RawKey(c, key) ==
    [threw |-> "", entry |-> Lookup(c, key)]

ImageCache_get(c, key) ==
    LET decodedKey == DecodedKey[key]
    IN  IF ~decodedKey.ok THEN [threw |-> "URIError", entry |-> NoEntry]
        ELSE [threw |-> "", entry |-> Lookup(c, decodedKey.val)]

\* set without the comparison of the serialized values.
ImageCache_set_NoCompare(c, dirty, key, value) ==
    LET decodedKey == DecodedKey[key]
    IN  IF ~decodedKey.ok
        THEN [threw |-> "URIError", cache |-> c, isDirty |-> dirty]
        ELSE IF c.type = "number"
        THEN [threw |-> "TypeError", cache |-> c, isDirty |-> dirty]
        ELSE [threw |-> "",
              cache |-> JsValue(c.type, MapPut(c.props, decodedKey.val, value)),
              isDirty |-> TRUE]

\* set that stores the value and leaves the dirty flag alone.
ImageCache_set_NeverDirty(c, dirty, key, value) ==
    LET decodedKey == DecodedKey[key]
    IN  IF ~decodedKey.ok
        THEN [threw |-> "URIError", cache |-> c, isDirty |-> dirty]
        ELSE IF Serialized[Lookup(c, decodedKey.val)] = Serialized[value]
        THEN [threw |-> "", cache |-> c, isDirty |-> dirty]
        ELSE IF c.type = "number"
        THEN [threw |-> "TypeError", cache |-> c, isDirty |-> dirty]
        ELSE [threw |-> "",
              cache |-> JsValue(c.type, MapPut(c.props, decodedKey.val, value)),
              isDirty |-> dirty]

\* Assigning a property of a number throws a TypeError in strict mode code
\* (a class body is strict).
ImageCache_set(c, dirty, key, value) ==
    LET decodedKey == DecodedKey[key]
    IN  IF ~decodedKey.ok
        THEN [threw |-> "URIError", cache |-> c, isDirty |-> dirty]
        ELSE IF Serialized[Lookup(c, decodedKey.val)] = Serialized[value]
        THEN [threw |-> "", cache |-> c, isDirty |-> dirty]
        ELSE IF c.type = "number"
        THEN [threw |-> "TypeError", cache |-> c, isDirty |-> dirty]
        ELSE [threw |-> "",
              cache |-> JsValue(c.type, MapPut(c.props, decodedKey.val, value)),
              isDirty |-> TRUE]

(***************************************************************************)
(* State                                                                   *)
(***************************************************************************)
VARIABLES
    altInput,   \* the content parseObsidianImageAlt is called with on its own
    altResult,  \* what that call returned
    fnInput,    \* the arguments generateSrcset or buildImageHTML is called
                \* with on its own
    fnResult,   \* what that call returned
    options,    \* resolveOptions(userOptions) of this image(md, userOptions)
    nodeEnv,    \* process.env.NODE_ENV
    cache,      \* ImageCache.cache
    isDirty,    \* ImageCache.isDirty
    stats,      \* ImageCache.stats
    file,       \* the backing file at cacheFilePath
    loadPc,     \* where load() is: "idle", "access", "read", "done"
    writes,     \* the writeFile calls of save() that have not settled
    hook,       \* the beforeExit listener: "none", "armed", "fired"
    calls,      \* the invocations of the renderer rule
    mutated,    \* history: a set changed the map since load() was called, or
                \* since the last completed flush
    snap,       \* history: the value whose serialization the file holds
    reloaded    \* history: "fresh" for an instance constructed on that file,
                \* "yes" once its load() has completed, "no" after any set

vars ==
    <<altInput, altResult, fnInput, fnResult, options, nodeEnv, cache, isDirty, stats, file, loadPc, writes, hook,
      calls, mutated, snap, reloaded>>

history == <<mutated, snap, reloaded>>

\* const cache = cachePath && options.progressive.enable ? new ImageCache : null
hasCache == options.cache_path.has /\ options.progressive.enable

PendingDim == [settled |-> FALSE, has |-> FALSE, width |-> NoNum, height |-> NoNum]
PendingThumb == [settled |-> FALSE, url |-> NoStr]
NoMarkup == Rejected(NoToken, "")

FreeCall ==
    [pc |-> "free", token |-> NoToken, dim |-> PendingDim, th |-> PendingThumb,
     requests |-> {}, out |-> NoMarkup]
\* The rule's promise settled with out, having issued no request.
Returned(token, out) ==
    [pc |-> "done", token |-> token, dim |-> PendingDim, th |-> PendingThumb,
     requests |-> {}, out |-> out]
\* The fetches issued one after the other: the dimension request alone.
Fetching_DimensionFirst(token) ==
    [pc |-> "fetching", token |-> token, dim |-> PendingDim, th |-> PendingThumb,
     requests |-> {DimensionRequest(token.src)}, out |-> NoMarkup]

\* Promise.all([getBitifulDimension(src), getBitifulThumbhash(src)]): both
\* fetches are issued before the rule awaits.
Fetching(token) ==
    [pc |-> "fetching", token |-> token, dim |-> PendingDim, th |-> PendingThumb,
     requests |-> {DimensionRequest(token.src), ThumbhashRequest(token.src)},
     out |-> NoMarkup]

NoSnap == [valid |-> FALSE, value |-> EmptyObject]
\* generateSrcset and buildImageHTML have not been called on their own.
NoArgs == [fn |-> "none"]
NotCalled == [called |-> FALSE]
\* parseObsidianImageAlt has not been called on its own.
NotParsed ==
    [called |-> FALSE, value |-> [alt |-> <<>>, width |-> NoNum, height |-> NoNum]]
ZeroStats == [cacheHits |-> 0, apiRequests |-> 0]
Gets == stats.cacheHits + stats.apiRequests

(***************************************************************************)
(* image(md, userOptions): the state once it has returned                  *)
(***************************************************************************)
Init ==
    /\ altInput = <<>>
    /\ altResult = NotParsed
    /\ fnInput = NoArgs
    /\ fnResult = NotCalled
    /\ \E userOptions \in UserOptionsSet : options = resolveOptions(userOptions)
    /\ nodeEnv \in NodeEnvs
    /\ cache = EmptyObject
    /\ isDirty = FALSE
    /\ stats = ZeroStats
    /\ file \in IF hasCache THEN PipelineFiles ELSE {AbsentFile}
    /\ loadPc = IF hasCache THEN "access" ELSE "idle"
    /\ writes = <<>>
    /\ hook = IF hasCache THEN "armed" ELSE "none"
    /\ calls = [i \in 1..MaxInFlight |-> FreeCall]
    /\ mutated = FALSE
    /\ snap = NoSnap
    /\ reloaded = "no"

(***************************************************************************)
(* ImageCache.load                                                         *)
(***************************************************************************)
\* load() assigning this.cache, in the try block or in the catch block.
LoadAssign(value) ==
    /\ cache' = value
    /\ loadPc' = "done"
    /\ reloaded' = IF reloaded = "fresh" THEN "yes" ELSE reloaded

\* await fs.access(...) settles.
LoadAccess ==
    /\ loadPc = "access"
    /\ IF file.exists
       THEN /\ loadPc' = "read"
            /\ UNCHANGED <<cache, reloaded>>
       ELSE LoadAssign(EmptyObject)
    /\ UNCHANGED <<altInput, altResult, fnInput, fnResult, options, nodeEnv, isDirty, stats, file, writes, hook, calls,
                   mutated, snap>>

\* await fs.readFile(...) settles; the rest of load() runs.
LoadRead ==
    /\ loadPc = "read"
    /\ LoadAssign(LoadedValue(file))
    /\ UNCHANGED <<altInput, altResult, fnInput, fnResult, options, nodeEnv, isDirty, stats, file, writes, hook, calls,
                   mutated, snap>>

(***************************************************************************)
(* ImageCache.save                                                         *)
(***************************************************************************)
\* save() up to its await: nothing when the store is not dirty, else the
\* map is serialized and writeFile is called.
\* save without the dirty check.
ImageCache_save_Always(c, dirty, q) ==
    Append(q, [text |-> Stringify(c), value |-> c])

ImageCache_save(c, dirty, q) ==
    IF ~dirty THEN q
    ELSE Append(q, [text |-> Stringify(c), value |-> c])

SaveCall == writes' = ImageCache_save(cache, isDirty, writes)

RemoveAt(q, j) == SubSeq(q, 1, j - 1) \o SubSeq(q, j + 1, Len(q))

\* writeFile resolves: the file holds the text, the flag is cleared.
SaveWriteOk(j) ==
    /\ j \in 1..Len(writes)
    /\ file' = FileOf(writes[j].text)
    /\ isDirty' = FALSE
    /\ writes' = RemoveAt(writes, j)
    /\ mutated' = FALSE
    /\ snap' = [valid |-> TRUE, value |-> writes[j].value]
    /\ reloaded' = "no"
    /\ UNCHANGED <<altInput, altResult, fnInput, fnResult, options, nodeEnv, cache, stats, loadPc, hook, calls>>

\* writeFile rejects: the catch block logs.
SaveWriteFail(j) ==
    /\ j \in 1..Len(writes)
    /\ file' \in AfterFailedWrite(file)
    /\ writes' = RemoveAt(writes, j)
    /\ snap' = IF file' = file THEN snap ELSE NoSnap
    /\ reloaded' = IF file' = file THEN reloaded ELSE "no"
    /\ UNCHANGED <<altInput, altResult, fnInput, fnResult, options, nodeEnv, cache, isDirty, stats, loadPc, hook, calls,
                   mutated>>

\* process.once("beforeExit", () => cache.save()): emitted when the event
\* loop has nothing left to do, so load() and every rule have settled.
BeforeExit ==
    /\ hook = "armed"
    /\ loadPc = "done"
    /\ \A i \in 1..MaxInFlight : calls[i].pc # "fetching"
    /\ hook' = "fired"
    /\ SaveCall
    /\ UNCHANGED <<altInput, altResult, fnInput, fnResult, options, nodeEnv, cache, isDirty, stats, file, loadPc, calls,
                   mutated, snap, reloaded>>

(***************************************************************************)
(* The renderer rule md.renderer.rules.image (src/index.ts)                *)
(***************************************************************************)
\* The passthrough branch without its width test.
Passthrough_Untouched(token) == imageRule(token)

\* The branch for a reference that is not handled progressively.
Passthrough(token) ==
    LET parsedAlt == parseObsidianImageAlt(token.content)
    IN  IF Truthy(parsedAlt.width)
        THEN applyDimensionToHTML(imageRule(token), parsedAlt.width, parsedAlt.height)
        ELSE imageRule(token)

\* The cache-hit branch without the cached placeholder.
FromCache_NoPlaceholder(token, cached) ==
    buildImageHTML(parseObsidianImageAlt(token.content), token.src, options,
                   cached.width, cached.height, "")

\* The markup of the cache-hit branch.
FromCache(token, cached) ==
    buildImageHTML(parseObsidianImageAlt(token.content), token.src, options,
                   cached.width, cached.height, cached.dataURL)

\* The rule from its call to its first await or its return.  The slot is the
\* first free one.
RuleCall(i, token) ==
    /\ hook # "fired"
    /\ calls[i].pc = "free"
    /\ \A j \in 1..(i - 1) : calls[j].pc # "free"
    /\ LET got == ImageCache_get(cache, token.src)
       IN  IF ~HandlesProgressive[token.src, options, nodeEnv]
           THEN /\ calls' = [calls EXCEPT ![i] = Returned(token, Passthrough(token))]
                /\ UNCHANGED stats
           ELSE IF hasCache /\ got.threw # ""
           THEN /\ calls' = [calls EXCEPT ![i] =
                                Returned(token, Rejected(token, got.threw))]
                /\ UNCHANGED stats
           ELSE IF hasCache /\ got.entry # NoEntry
           THEN /\ Gets < MaxLookups
                /\ stats' = [stats EXCEPT !.cacheHits = @ + 1]
                /\ calls' = [calls EXCEPT ![i] =
                                Returned(token, FromCache(token, got.entry))]
           ELSE /\ hasCache => Gets < MaxLookups
                /\ stats' = IF hasCache
                            THEN [stats EXCEPT !.apiRequests = @ + 1]
                            ELSE stats
                /\ calls' = [calls EXCEPT ![i] = Fetching(token)]
    /\ UNCHANGED <<altInput, altResult, fnInput, fnResult, options, nodeEnv, cache, isDirty, file, loadPc, writes, hook,
                   history>>

\* The promise of getBitifulDimension(src) resolves.
DimensionSettle(i, resp) ==
    /\ calls[i].pc = "fetching"
    /\ ~calls[i].dim.settled
    /\ calls' = [calls EXCEPT ![i].dim =
                    [settled |-> TRUE,
                     has |-> getBitifulDimension(resp).has,
                     width |-> getBitifulDimension(resp).width,
                     height |-> getBitifulDimension(resp).height]]
    /\ UNCHANGED <<altInput, altResult, fnInput, fnResult, options, nodeEnv, cache, isDirty, stats, file, loadPc, writes,
                   hook, history>>

\* The promise of getBitifulThumbhash(src) resolves.
ThumbhashSettle(i, resp) ==
    /\ calls[i].pc = "fetching"
    /\ ~calls[i].th.settled
    /\ calls' = [calls EXCEPT ![i].th =
                    [settled |-> TRUE, url |-> getBitifulThumbhash(resp)]]
    /\ UNCHANGED <<altInput, altResult, fnInput, fnResult, options, nodeEnv, cache, isDirty, stats, file, loadPc, writes,
                   hook, history>>

\* thumbhashResult || ""
PlaceholderUrl(th) == IF TruthyStr(th.url) THEN th.url ELSE ""

\* if (cache && placeholderUrl) cache.set(...)
WritesBack(call) == hasCache /\ TruthyStr(PlaceholderUrl(call.th))

\* The dimension-absent branch treated as the passthrough branch is.
DimensionAbsent_Styled(token) == Passthrough(token)

\* if (!dimension) return imageRule(tokens, idx, info, env, self)
DimensionAbsent(token) == imageRule(token)

\* The rule writing the display size of the reference into the entry.
RuleResume_DisplaySize(i) ==
    LET call == calls[i]
        token == call.token
        placeholderUrl == PlaceholderUrl(call.th)
        value == RuleEntry(call.dim.width, call.dim.height, placeholderUrl)
        put == ImageCache_set(cache, isDirty, token.src, value)
        built == buildImageHTML(parseObsidianImageAlt(token.content), token.src,
                                options, call.dim.width, call.dim.height,
                                placeholderUrl)
    IN  /\ call.pc = "fetching"
        /\ call.dim.settled /\ call.th.settled
        /\ IF ~call.dim.has
           THEN /\ calls' = [calls EXCEPT ![i] = Returned(token, DimensionAbsent(token))]
                /\ UNCHANGED <<cache, isDirty, mutated, reloaded>>
           ELSE IF ~WritesBack(call)
           THEN /\ calls' = [calls EXCEPT ![i] = Returned(token, built)]
                /\ UNCHANGED <<cache, isDirty, mutated, reloaded>>
           ELSE IF put.threw # ""
           THEN /\ calls' = [calls EXCEPT ![i] =
                                Returned(token, Rejected(token, put.threw))]
                /\ reloaded' = "no"
                /\ UNCHANGED <<cache, isDirty, mutated>>
           ELSE /\ calls' = [calls EXCEPT ![i] = Returned(token, built)]
                /\ cache' = JsValue(put.cache.type,
                                    MapPut(put.cache.props, DecodedKey[token.src].val,
                                           [value EXCEPT !.width = built.maxWidth]))
                /\ isDirty' = put.isDirty
                /\ mutated' = (mutated \/ put.cache # cache)
                /\ reloaded' = "no"
        /\ UNCHANGED <<altInput, altResult, fnInput, fnResult, options, nodeEnv, stats, file, loadPc, writes, hook, snap>>

\* The rule after await Promise.all(...), to its return.
RuleResume(i) ==
    LET call == calls[i]
        token == call.token
        placeholderUrl == PlaceholderUrl(call.th)
        value == RuleEntry(call.dim.width, call.dim.height, placeholderUrl)
        put == ImageCache_set(cache, isDirty, token.src, value)
        built == buildImageHTML(parseObsidianImageAlt(token.content), token.src,
                                options, call.dim.width, call.dim.height,
                                placeholderUrl)
    IN  /\ call.pc = "fetching"
        /\ call.dim.settled /\ call.th.settled
        /\ IF ~call.dim.has
           THEN /\ calls' = [calls EXCEPT ![i] = Returned(token, DimensionAbsent(token))]
                /\ UNCHANGED <<cache, isDirty, mutated, reloaded>>
           ELSE IF ~WritesBack(call)
           THEN /\ calls' = [calls EXCEPT ![i] = Returned(token, built)]
                /\ UNCHANGED <<cache, isDirty, mutated, reloaded>>
           ELSE IF put.threw # ""
           THEN /\ calls' = [calls EXCEPT ![i] =
                                Returned(token, Rejected(token, put.threw))]
                /\ reloaded' = "no"
                /\ UNCHANGED <<cache, isDirty, mutated>>
           ELSE /\ calls' = [calls EXCEPT ![i] = Returned(token, built)]
                /\ cache' = put.cache
                /\ isDirty' = put.isDirty
                /\ mutated' = (mutated \/ put.cache # cache)
                /\ reloaded' = "no"
        /\ UNCHANGED <<altInput, altResult, fnInput, fnResult, options, nodeEnv, stats, file, loadPc, writes, hook, snap>>

\* The host takes the settled promise's markup.
Deliver(i) ==
    /\ calls[i].pc = "done"
    /\ calls' = [calls EXCEPT ![i] = FreeCall]
    /\ UNCHANGED <<altInput, altResult, fnInput, fnResult, options, nodeEnv, cache, isDirty, stats, file, loadPc, writes,
                   hook, history>>

Next ==
    \/ \E i \in 1..MaxInFlight, token \in Tokens : RuleCall(i, token)
    \/ \E i \in 1..MaxInFlight, resp \in DimensionResponses : DimensionSettle(i, resp)
    \/ \E i \in 1..MaxInFlight, resp \in ThumbhashResponses : ThumbhashSettle(i, resp)
    \/ \E i \in 1..MaxInFlight : RuleResume(i)
    \/ \E i \in 1..MaxInFlight : Deliver(i)
    \/ LoadAccess
    \/ LoadRead
    \/ BeforeExit
    \/ \E j \in 1..MaxWrites : SaveWriteOk(j)
    \/ \E j \in 1..MaxWrites : SaveWriteFail(j)

Spec == Init /\ [][Next]_vars

(***************************************************************************)
(* ImageCache used directly: any caller, any order of its methods          *)
(***************************************************************************)
\* new ImageCache(cacheFile), no method called yet.
Constructed ==
    /\ cache = EmptyObject
    /\ isDirty = FALSE
    /\ stats = ZeroStats
    /\ loadPc = "idle"
    /\ mutated = FALSE

CacheInit ==
    /\ altInput = <<>>
    /\ altResult = NotParsed
    /\ fnInput = NoArgs
    /\ fnResult = NotCalled
    /\ options = resolveOptions(
          UserOptions(NoBool, NoList, NoList, NoList, SomePath("cache.json")))
    /\ nodeEnv = "production"
    /\ Constructed
    /\ file \in Files
    /\ writes = <<>>
    /\ hook = "none"
    /\ calls = <<>>
    /\ snap = NoSnap
    /\ reloaded = "no"

\* A later process constructs its ImageCache on the file a save() completed.
Restart ==
    /\ snap.valid
    /\ loadPc \in {"idle", "done"}
    /\ writes = <<>>
    /\ cache' = EmptyObject
    /\ isDirty' = FALSE
    /\ stats' = ZeroStats
    /\ loadPc' = "idle"
    /\ mutated' = FALSE
    /\ reloaded' = "fresh"
    /\ UNCHANGED <<altInput, altResult, fnInput, fnResult, options, nodeEnv, file, writes, hook, calls, snap>>

\* cache.load() is called and runs to its first await.
ClientLoad ==
    /\ loadPc \in {"idle", "done"}
    /\ loadPc' = "access"
    /\ UNCHANGED <<altInput, altResult, fnInput, fnResult, options, nodeEnv, cache, isDirty, stats, file, writes, hook,
                   calls, history>>

\* cache.get(key)
ClientGet(key) ==
    LET got == ImageCache_get(cache, key)
    IN  /\ IF got.threw # "" THEN UNCHANGED stats
           ELSE /\ Gets < MaxGets
                /\ stats' = IF got.entry # NoEntry
                            THEN [stats EXCEPT !.cacheHits = @ + 1]
                            ELSE [stats EXCEPT !.apiRequests = @ + 1]
        /\ UNCHANGED <<altInput, altResult, fnInput, fnResult, options, nodeEnv, cache, isDirty, file, loadPc, writes,
                       hook, calls, history>>

\* cache.set(key, value)
ClientSet(key, value) ==
    LET put == ImageCache_set(cache, isDirty, key, value)
    IN  /\ cache' = put.cache
        /\ isDirty' = put.isDirty
        /\ mutated' = (mutated \/ put.cache # cache)
        /\ reloaded' = "no"
        /\ UNCHANGED <<altInput, altResult, fnInput, fnResult, options, nodeEnv, stats, file, loadPc, writes, hook, calls, snap>>

\* cache.save() is called and runs to its await or its return.
ClientSave ==
    /\ Len(writes) < MaxWrites
    /\ SaveCall
    /\ UNCHANGED <<altInput, altResult, fnInput, fnResult, options, nodeEnv, cache, isDirty, stats, file, loadPc, hook,
                   calls, history>>

CacheNext ==
    \/ Restart
    \/ ClientLoad
    \/ LoadAccess
    \/ LoadRead
    \/ \E key \in CacheKeys : ClientGet(key)
    \/ \E call \in CacheSets : ClientSet(call[1], call[2])
    \/ ClientSave
    \/ \E j \in 1..MaxWrites : SaveWriteOk(j)
    \/ \E j \in 1..MaxWrites : SaveWriteFail(j)

CacheSpec == CacheInit /\ [][CacheNext]_vars

(***************************************************************************)
(* parseObsidianImageAlt called on its own, as its test does               *)
(***************************************************************************)
\* The characters of the descriptive texts: a label character, white space,
\* the pipe, digits, the size separator, a line terminator.
AltChars == {"p", " ", "|", "3", "0", "x", "\n"}
\* The longest descriptive text.
MaxAltLen == 5

AltTexts ==
    UNION {[1..n -> AltChars] : n \in 0..MaxAltLen}

ParseInit ==
    /\ altInput \in AltTexts
    /\ altResult = NotParsed
    /\ fnInput = NoArgs
    /\ fnResult = NotCalled
    /\ options = resolveOptions(
          UserOptions(NoBool, NoList, NoList, NoList, NoPath))
    /\ nodeEnv = "production"
    /\ Constructed
    /\ file = AbsentFile
    /\ writes = <<>>
    /\ hook = "none"
    /\ calls = <<>>
    /\ snap = NoSnap
    /\ reloaded = "no"

\* const parsed = parseObsidianImageAlt(content)
ParseCall ==
    /\ ~altResult.called
    /\ altResult' = [called |-> TRUE, value |-> parseObsidianImageAlt(altInput)]
    /\ UNCHANGED <<altInput, fnInput, fnResult, options, nodeEnv, cache, isDirty, stats, file, loadPc,
                   writes, hook, calls, history>>

ParseNext == ParseCall

ParseSpec == ParseInit /\ [][ParseNext]_vars

(***************************************************************************)
(* generateSrcset called on its own                                        *)
(***************************************************************************)
\* The largest original width.
MaxWidth == 4
\* The longest list of candidate widths.
MaxCandidates == 3

\* Candidate lists in any order, with repeats, with widths below, at and
\* above every original width.
CandidateLists ==
    UNION {[1..n -> 0..(MaxWidth + 1)] : n \in 0..MaxCandidates}

\* The variables of the plugin and its cache when a function is called on
\* its own.
NoPlugin ==
    /\ altInput = <<>>
    /\ altResult = NotParsed
    /\ nodeEnv = "production"
    /\ Constructed
    /\ file = AbsentFile
    /\ writes = <<>>
    /\ hook = "none"
    /\ calls = <<>>
    /\ snap = NoSnap
    /\ reloaded = "no"

SrcsetInit ==
    /\ \E src \in {UrlA, UrlAQuery}, width \in 1..MaxWidth,
          srcsetWidths \in CandidateLists :
            fnInput = [fn |-> "generateSrcset", src |-> src, width |-> width,
                       srcsetWidths |-> srcsetWidths]
    /\ fnResult = NotCalled
    /\ options = resolveOptions(
          UserOptions(NoBool, NoList, NoList, NoList, NoPath))
    /\ NoPlugin

\* const srcset = generateSrcset(src, originalWidth, srcset_widths)
SrcsetCall ==
    /\ fnInput.fn = "generateSrcset"
    /\ ~fnResult.called
    /\ fnResult' = [called |-> TRUE,
                    value |-> generateSrcset(fnInput.src, fnInput.width,
                                             fnInput.srcsetWidths)]
    /\ UNCHANGED <<altInput, altResult, fnInput, options, nodeEnv, cache,
                   isDirty, stats, file, loadPc, writes, hook, calls, history>>

SrcsetSpec == SrcsetInit /\ [][SrcsetCall]_vars

(***************************************************************************)
(* buildImageHTML called on its own                                        *)
(***************************************************************************)
\* What parseObsidianImageAlt can return for width and height: undefined,
\* or a number that parseInt gave for a digit string; a height only with a
\* width.
ParsedSizes ==
    {[width |-> NoNum, height |-> NoNum]}
    \cup {[width |-> w, height |-> h] :
             w \in 0..MaxWidth, h \in {NoNum} \cup 0..MaxWidth}

BuildInit ==
    /\ \E size \in ParsedSizes, originalWidth \in 1..MaxWidth,
          originalHeight \in 1..MaxWidth, dataURL \in {"", EntryA.dataURL} :
            fnInput = [fn |-> "buildImageHTML",
                       parsedAlt |-> [alt |-> AltPlain, width |-> size.width,
                                      height |-> size.height],
                       src |-> UrlA, originalWidth |-> originalWidth,
                       originalHeight |-> originalHeight, dataURL |-> dataURL]
    /\ fnResult = NotCalled
    /\ options = resolveOptions(
          UserOptions(NoBool, [has |-> TRUE, list |-> <<2, 3>>], NoList,
                      NoList, NoPath))
    /\ NoPlugin

\* return buildImageHTML(parsedAlt, src, options, width, height, dataURL)
BuildCall ==
    /\ fnInput.fn = "buildImageHTML"
    /\ ~fnResult.called
    /\ fnResult' = [called |-> TRUE,
                    value |-> buildImageHTML(fnInput.parsedAlt, fnInput.src,
                                             options, fnInput.originalWidth,
                                             fnInput.originalHeight,
                                             fnInput.dataURL)]
    /\ UNCHANGED <<altInput, altResult, fnInput, options, nodeEnv, cache,
                   isDirty, stats, file, loadPc, writes, hook, calls, history>>

BuildSpec == BuildInit /\ [][BuildCall]_vars

(***************************************************************************)
(* Properties                                                              *)
(***************************************************************************)
\* The rule was called in slot i in this step.
Called(i) == calls[i].pc = "free" /\ calls'[i].pc # "free"
\* The rule resumed after its fetches and returned in this step.
Resumed(i) == calls[i].pc = "fetching" /\ calls'[i].pc = "done"
\* The markup is the host's or the plugin's, not a rejection.
IsMarkup(out) == out.tag \in {"host", "img", "div"}
\* The keys of CacheKeys that decode to the canonical key of key.
Spellings(key) ==
    {k \in CacheKeys : DecodedKey[k].ok /\ DecodedKey[k].val = DecodedKey[key].val}
CanonicalKeys == {DecodedKey[k].val : k \in {x \in CacheKeys : DecodedKey[x].ok}}
\* load() assigned this.cache in this step.
LoadCompleted == loadPc # "done" /\ loadPc' = "done"
\* A new instance was constructed in this step.
Constructing == reloaded # "fresh" /\ reloaded' = "fresh"
\* A pending writeFile settled in this step.
WriteSettled == Len(writes') < Len(writes)

C2_DimensionsFailureFallback ==
    [][\A i \in 1..MaxInFlight :
        (Resumed(i) /\ ~calls[i].dim.has)
            => /\ calls'[i].out = imageRule(calls[i].token)
               /\ cache' = cache
               /\ isDirty' = isDirty
    ]_vars

\* A reference with a width in its alt text and a placeholder that was
\* fetched fell back to the host's rendering after a cache miss.
C2_Witness ==
    \E i \in 1..MaxInFlight :
        /\ calls[i].pc = "done"
        /\ calls[i].token = Token(UrlA, AltPhoto300)
        /\ calls[i].out = imageRule(calls[i].token)
        /\ stats.apiRequests = 1
        /\ hasCache

\* C3: every invocation of the rule, for every URL, every outcome of the
\* remote service and every state of the cache, completes with markup and
\* never throws or rejects.
C3_NoFailureSurfaced ==
    \A i \in 1..MaxInFlight : calls[i].pc = "done" => IsMarkup(calls[i].out)

\* C4: whenever an eligible reference missed the cache and its dimensions
\* fetch succeeded, the fetched width and height are in the cache under the
\* reference's key when the rule returns, whether or not the placeholder
\* fetch succeeded.
C4_WriteBackOnMiss ==
    [][\A i \in 1..MaxInFlight :
        (Resumed(i) /\ hasCache /\ calls[i].dim.has)
            => LET stored == ImageCache_get(cache', calls[i].token.src).entry
               IN  /\ stored.width = calls[i].dim.width
                   /\ stored.height = calls[i].dim.height
    ]_vars

\* C5: in every reachable state a set(k, v) that returns gives a map in
\* which get of every spelling of k returns v; what get returns for a
\* canonical key changes only by a set on that key (or by load() or a new
\* instance replacing the map), not by a get, a set on another key or a
\* save; and a get that finds an entry counts as a hit.
C5_CacheRoundTrip ==
    /\ [](\A call \in CacheSets :
            LET put == ImageCache_set(cache, isDirty, call[1], call[2])
            IN  put.threw = ""
                => \A k \in Spellings(call[1]) :
                      ImageCache_get(put.cache, k) =
                          [threw |-> "", entry |-> call[2]])
    /\ [][/\ \A canonical \in CanonicalKeys :
                Lookup(cache', canonical) # Lookup(cache, canonical)
                => \/ LoadCompleted
                   \/ Constructing
                   \/ \E call \in CacheSets :
                        /\ DecodedKey[call[1]].ok
                        /\ DecodedKey[call[1]].val = canonical
                        /\ ClientSet(call[1], call[2])
                        /\ Lookup(cache', canonical) = call[2]
          /\ \A k \in CacheKeys :
                (/\ stats' # stats
                 /\ ImageCache_get(cache, k).entry # NoEntry
                 /\ ClientGet(k))
                => stats' = [stats EXCEPT !.cacheHits = @ + 1]
       ]_vars

\* On an instance that never loaded, with no file, a get hit the entry that
\* a set had stored under the other spelling's canonical key.
C5_Witness ==
    /\ file = AbsentFile
    /\ loadPc = "idle"
    /\ ~snap.valid
    /\ DOMAIN cache.props = {UrlDecoded}
    /\ ImageCache_get(cache, UrlEscaped).entry = EntryA
    /\ stats = [cacheHits |-> 1, apiRequests |-> 0]

\* C6: save() calls writeFile only when the dirty flag is set, with the
\* serialization of the whole map, and does not clear the flag before the
\* write has succeeded; a write that succeeds leaves that serialization in
\* the file and the flag cleared; a write that fails leaves the flag and
\* the map as they were; the file and a set flag change in no other way.
C6_SaveSemantics ==
    [][/\ Len(writes') > Len(writes)
            => /\ isDirty
               /\ writes' = Append(writes, [text |-> Stringify(cache),
                                            value |-> cache])
               /\ isDirty' /\ cache' = cache /\ file' = file
       /\ \A j \in 1..Len(writes) :
            SaveWriteOk(j)
            => /\ file' = FileOf(Stringify(writes[j].value))
               /\ ~isDirty'
               /\ cache' = cache
       /\ \A j \in 1..Len(writes) :
            SaveWriteFail(j) => (isDirty' = isDirty /\ cache' = cache)
       /\ file' # file => WriteSettled
       /\ (isDirty /\ ~isDirty') => (WriteSettled \/ Constructing)
    ]_vars

\* A save() of a dirty store completed: the file holds the serialization of
\* the map, which has an entry, and the flag is cleared.
C6_Witness ==
    /\ snap.valid
    /\ snap.value = cache
    /\ cache.type = "object"
    /\ Lookup(cache, UrlDecoded) = EntryA
    /\ file = FileOf(Stringify(cache))
    /\ ~isDirty
    /\ writes = <<>>

\* C7: in every reachable state, set(k, v) with the entry stored under k
\* serializing as v does returns the map and the dirty flag unchanged, and
\* a second set(k, v) right after a first one changes nothing more.
C7_SetIdempotence ==
    \A call \in CacheSets :
        LET key == DecodedKey[call[1]]
            once == ImageCache_set(cache, isDirty, call[1], call[2])
            twice == ImageCache_set(once.cache, once.isDirty, call[1], call[2])
        IN  /\ (/\ key.ok
                /\ StringifyEntry(Lookup(cache, key.val)) = StringifyEntry(call[2]))
               => once = [threw |-> "", cache |-> cache, isDirty |-> isDirty]
            /\ once.threw = ""
               => (twice.cache = once.cache /\ twice.isDirty = once.isDirty)

\* After set(k, v) and a completed save() the entry is stored and the flag
\* is clear: the state in which the next set(k, v) leaves the flag clear.
C7_Witness ==
    /\ snap.valid
    /\ ~isDirty
    /\ writes = <<>>
    /\ reloaded = "no"
    /\ Lookup(cache, UrlA) = EntryB
    /\ ~ImageCache_set(cache, isDirty, UrlA, EntryB).isDirty

\* C8: once an instance constructed on the file a save() completed has
\* loaded it, its map equals the saved one and its dirty flag is false.
C8_PersistenceRoundTrip ==
    reloaded = "yes" => (cache.props = snap.value.props /\ ~isDirty)

\* What the claim counts as a failure case of the backing file.
FailureCase(f) ==
    \/ ~f.exists
    \/ ~f.readable
    \/ f.text.json \in {"empty", "garbage", "null", "number", "array"}

\* Every get misses and every set with a key that decodes returns.
BehavesAsEmptyMap(c) ==
    /\ \A k \in CacheKeys :
          DecodedKey[k].ok => ImageCache_get(c, k) = [threw |-> "", entry |-> NoEntry]
    /\ \A call \in CacheSets :
          DecodedKey[call[1]].ok
          => ImageCache_set(c, FALSE, call[1], call[2]).threw = ""

\* C9: when load() completes on a file that is absent, unreadable, not
\* JSON, or JSON that is not an object, the store behaves as an empty map:
\* every get misses and every set succeeds.
C9_LoadFailsSoft ==
    [][(LoadCompleted /\ FailureCase(file)) => BehavesAsEmptyMap(cache')]_vars

\* C10: the rule's process calls writeFile only in the step in which the
\* beforeExit listener runs, which happens once, and in that step it calls
\* it if and only if a set changed the map since load() was called; the
\* file changes only after that.
C10_ShutdownFlush ==
    [][/\ Len(writes') > Len(writes) => (hook = "armed" /\ hook' = "fired")
       /\ (hook = "armed" /\ hook' = "fired")
            => ((Len(writes') > Len(writes)) <=> mutated)
       /\ hook = "fired" => hook' = "fired"
       /\ file' # file => hook = "fired"
    ]_vars

\* The listener ran with the map changed by a write-back, and its write of
\* that map completed.
C10_Witness ==
    /\ hook = "fired"
    /\ snap.valid
    /\ snap.value = cache
    /\ Lookup(cache, UrlA).width = 1200
    /\ file = FileOf(Stringify(cache))
    /\ stats.apiRequests = 1

\* The host name matches the pattern as a whole, letter case aside, a `*`
\* of the pattern standing for any substring.
RECURSIVE MatchesWhole(_, _)
MatchesWhole(hostname, pattern) ==
    IF pattern = <<>> THEN hostname = <<>>
    ELSE IF pattern[1] = "*"
    THEN \E k \in 0..Len(hostname) :
            MatchesWhole(SubSeq(hostname, k + 1, Len(hostname)), Tail(pattern))
    ELSE /\ hostname # <<>>
         /\ LowerChar(hostname[1]) = LowerChar(pattern[1])
         /\ MatchesWhole(Tail(hostname), Tail(pattern))

\* The rule returned in the step of its call, having issued no request.
ReturnedAtOnce(i) == calls'[i].pc = "done" /\ calls'[i].requests = {}

\* C11: a reference whose host name matches none of the configured domain
\* patterns as a whole host name is not handled progressively: the rule
\* returns without a dimension or thumbhash request, also when the host name
\* contains a pattern as a substring.
C11_AnchoredAllowList ==
    [][\A i \in 1..MaxInFlight :
        LET url == ParseURL(calls'[i].token.src)
            domains == options.bitiful_domains
        IN  (/\ Called(i)
             /\ domains.has /\ domains.list # <<>>
             /\ url.ok
             /\ \A k \in 1..Len(domains.list) :
                    ~MatchesWhole(url.hostname, domains.list[k]))
            => ReturnedAtOnce(i)
    ]_vars

\* The rule's call in slot i took the passthrough branch.
PassedThrough(i) == calls'[i].pc = "done" /\ calls'[i].out.tag = "host"

\* C12: with an empty domain list, or none configured, every reference with
\* an http(s) URL whose extension is not ignored is handled progressively,
\* whatever its host name.
C12_EmptyAllowListAllowsAll ==
    [][\A i \in 1..MaxInFlight :
        LET src == calls'[i].token.src
            domains == options.bitiful_domains
        IN  (/\ Called(i)
             /\ options.progressive.enable
             /\ nodeEnv # "development"
             /\ ~domains.has \/ domains.list = <<>>
             /\ startsWith(src, Http \o SchemeSep)
                  \/ startsWith(src, Http \o <<"s">> \o SchemeSep)
             /\ ParseURL(src).ok
             /\ ~shouldIgnoreFormat(src, options.ignore_formats))
            => ~PassedThrough(i)
    ]_vars

\* The URL's scheme is http or https.
NetworkScheme(src) ==
    \/ startsWith(toLowerCase(src), Http \o SchemeSep)
    \/ startsWith(toLowerCase(src), Http \o <<"s">> \o SchemeSep)

\* C13: a reference that is ineligible because progressive loading is
\* disabled, it has no URL, its URL's scheme is not a network scheme, its
\* path ends in an ignored format (letter case aside) or NODE_ENV is
\* development makes the rule return without a dimension or thumbhash
\* request, and the cache is neither read nor written.
C13_GateBeforeIO ==
    [][\A i \in 1..MaxInFlight :
        LET src == calls'[i].token.src
        IN  (/\ Called(i)
             /\ \/ ~options.progressive.enable
                \/ src = <<>>
                \/ ~NetworkScheme(src)
                \/ shouldIgnoreFormat(src, options.ignore_formats)
                \/ nodeEnv = "development")
            => /\ ReturnedAtOnce(i)
               /\ cache' = cache /\ isDirty' = isDirty /\ stats' = stats
               /\ writes' = writes /\ file' = file
    ]_vars

\* The host's rendering of the token with the inline size style on its img
\* tag: max-width and width, and height when it is given.
HostSized(token, width, height) ==
    [imageRule(token) EXCEPT !.style = [width |-> width, height |-> height]]

\* C14 as stated: for every reference the rule does not handle
\* progressively the output is exactly the host's default rendering,
\* whatever the descriptive text.
C14_PassthroughUntouched ==
    [][\A i \in 1..MaxInFlight :
        LET token == calls'[i].token
        IN  (Called(i) /\ ~shouldHandleProgressive(token.src, options, nodeEnv))
            => /\ ReturnedAtOnce(i)
               /\ calls'[i].out = imageRule(token)
    ]_vars

\* C14: for every reference the rule does not handle progressively the
\* output is the host's own rendering and buildImageHTML has no part in it;
\* it is exactly the host's default when the text carries no width override
\* (or a zero one), and the host's default with only the inline size style
\* added when it carries one.
C14_PassthroughSizedOnly ==
    [][\A i \in 1..MaxInFlight :
        LET token == calls'[i].token
            parsed == parseObsidianImageAlt(token.content)
        IN  (Called(i) /\ ~shouldHandleProgressive(token.src, options, nodeEnv))
            => /\ ReturnedAtOnce(i)
               /\ calls'[i].out.tag = "host"
               /\ calls'[i].out =
                    IF parsed.width \in {NoNum, 0} THEN imageRule(token)
                    ELSE HostSized(token, parsed.width,
                                   IF parsed.height = 0 THEN NoNum
                                   ELSE parsed.height)
    ]_vars

\* A reference on a domain that is not listed, with the text p|300x100, was
\* returned as the host's rendering with the size style, in a production
\* run with a cache that was not consulted.
C14_Witness ==
    \E i \in 1..MaxInFlight :
        /\ calls[i].pc = "done"
        /\ calls[i].token = Token(UrlOther, AltP300x100)
        /\ hasCache /\ nodeEnv = "production"
        /\ calls[i].out = HostSized(calls[i].token, 300, 100)
        /\ calls[i].out # imageRule(calls[i].token)
        /\ stats = ZeroStats

\* s is <digits> or <digits>x<digits>.
IsSizeSuffix(s) ==
    \/ AllDigits(s)
    \/ \E x \in 1..Len(s) :
          /\ s[x] = "x"
          /\ AllDigits(SubSeq(s, 1, x - 1))
          /\ AllDigits(SubSeq(s, x + 1, Len(s)))
\* t ends in a pipe followed by a size suffix.
EndsInSizeSuffix(t) ==
    \E p \in 1..Len(t) : t[p] = "|" /\ IsSizeSuffix(SubSeq(t, p + 1, Len(t)))

\* C15: with progressive loading disabled, an image whose text is 'alt|W'
\* is rendered as the host's img tag with the style 'max-width: Wpx; width:
\* Wpx;' and no height, one whose text is 'alt|WxH' with ' height: Hpx;'
\* added, and one whose text has no size suffix without an inline style
\* (W and H sizes of at least 1).
C15_ObsidianSizingOnPassthrough ==
    [][\A i \in 1..MaxInFlight :
        LET token == calls'[i].token
            text == token.content
            out == calls'[i].out
        IN  (Called(i) /\ ~options.progressive.enable)
            => /\ ReturnedAtOnce(i)
               /\ out.tag = "host"
               /\ \A p \in 1..Len(text) :
                    LET suffix == SubSeq(text, p + 1, Len(text))
                    IN  /\ (/\ text[p] = "|"
                            /\ AllDigits(suffix)
                            /\ parseInt(suffix) >= 1)
                           => out = HostSized(token, parseInt(suffix), NoNum)
                        /\ \A x \in 1..Len(suffix) :
                             LET W == SubSeq(suffix, 1, x - 1)
                                 H == SubSeq(suffix, x + 1, Len(suffix))
                             IN  (/\ text[p] = "|"
                                  /\ suffix[x] = "x"
                                  /\ AllDigits(W) /\ AllDigits(H)
                                  /\ parseInt(W) >= 1 /\ parseInt(H) >= 1)
                                 => out = HostSized(token, parseInt(W), parseInt(H))
               /\ ~EndsInSizeSuffix(text)
                    => (out.style = NoStyle /\ out = imageRule(token))
    ]_vars

\* With progressive loading disabled, p|300x100 was rendered with width and
\* height in the style.
C15_Witness ==
    \E i \in 1..MaxInFlight :
        /\ ~options.progressive.enable
        /\ calls[i].pc = "done"
        /\ calls[i].token.content = AltP300x100
        /\ calls[i].out.tag = "host"
        /\ calls[i].out.style = [width |-> 300, height |-> 100]

\* The markup is buildImageHTML's.
IsEnriched(out) == out.tag \in {"img", "div"}

\* C16: the first skip_first enriched images of a document are emitted with
\* an eager loading hint.  With a cache every handled reference is counted
\* in stats on its lookup, so an image emitted on a hit after fewer than
\* skip_first lookups, or after its fetches as one of the first skip_first
\* lookups, is among the first skip_first enriched images.
C16_LazySkipCounter ==
    [][\A i \in 1..MaxInFlight :
        /\ (/\ Called(i)
            /\ hasCache
            /\ Gets < options.lazy.skip_first
            /\ IsEnriched(calls'[i].out))
           => calls'[i].out.loading = "eager"
        /\ (/\ Resumed(i)
            /\ hasCache
            /\ Gets <= options.lazy.skip_first
            /\ IsEnriched(calls'[i].out))
           => calls'[i].out.loading = "eager"
    ]_vars

\* The canonical URL of src: its query stripped, then URL-decoded.
CanonicalUrl(src) == DecodedKey[BaseUrl(src)]

\* C17: the cache is keyed by the canonical URL of a reference: a handled
\* reference whose canonical URL has an entry is a hit, returned at once
\* from that entry, and a write-back stores under the canonical URL only.
C17_CanonicalCacheKey ==
    [][\A i \in 1..MaxInFlight :
        LET src == calls'[i].token.src
            key == CanonicalUrl(src)
        IN  /\ (/\ Called(i)
                /\ hasCache
                /\ shouldHandleProgressive(src, options, nodeEnv)
                /\ key.ok
                /\ Lookup(cache, key.val) # NoEntry)
               => /\ ReturnedAtOnce(i)
                  /\ calls'[i].out = FromCache(calls'[i].token,
                                               Lookup(cache, key.val))
            /\ (Resumed(i) /\ key.ok)
               => \A k \in DOMAIN cache'.props :
                     Lookup(cache', k) # Lookup(cache, k) => k = key.val
    ]_vars

\* A result of parseObsidianImageAlt.
Parsed(alt, width, height) == [alt |-> alt, width |-> width, height |-> height]

\* C18: for every label and all digit strings W and H, the text 'label|W'
\* parses to the trimmed label, the width W and no height, and the text
\* 'label|WxH' to the trimmed label, the width W and the height H; the label
\* may be empty and may be any text.
C18_ParserSizeSuffix ==
    altResult.called =>
        \A p \in 1..Len(altInput) :
            LET label == SubSeq(altInput, 1, p - 1)
                suffix == SubSeq(altInput, p + 1, Len(altInput))
            IN  altInput[p] = "|" =>
                  /\ AllDigits(suffix) =>
                        altResult.value =
                            Parsed(trim(label), parseInt(suffix), NoNum)
                  /\ \A x \in 1..Len(suffix) :
                        LET W == SubSeq(suffix, 1, x - 1)
                            H == SubSeq(suffix, x + 1, Len(suffix))
                        IN  (suffix[x] = "x" /\ AllDigits(W) /\ AllDigits(H)) =>
                              altResult.value =
                                  Parsed(trim(label), parseInt(W), parseInt(H))

\* C19: a text that, once trimmed, does not end in '|<digits>' or
\* '|<digits>x<digits>' parses to the whole original text, unchanged and
\* untrimmed, with no width and no height.
C19_ParserOtherShapes ==
    (altResult.called /\ ~EndsInSizeSuffix(trim(altInput)))
        => altResult.value = Parsed(altInput, NoNum, NoNum)

\* A text with white space around it and a pipe followed by no digits was
\* parsed and came back as it was.
C19_Witness ==
    /\ altResult.called
    /\ altInput = <<" ", "p", "|", "x", " ">>
    /\ altResult.value = Parsed(altInput, NoNum, NoNum)

\* C20: every width and every height the parser returns is at least 1.
C20_OverridesPositive ==
    altResult.called =>
        /\ altResult.value.width # NoNum => altResult.value.width >= 1
        /\ altResult.value.height # NoNum => altResult.value.height >= 1

\* C21: the widths of the srcset are strictly ascending, every width but the
\* last is a candidate strictly smaller than the original width, and the
\* last entry is the original width with the unmodified URL; when no
\* candidate is below the original width that entry is the only one.
C21_SrcsetWidths ==
    (fnResult.called /\ fnInput.fn = "generateSrcset") =>
        LET srcset == fnResult.value
            n == Len(srcset)
            candidates == {fnInput.srcsetWidths[k] :
                              k \in 1..Len(fnInput.srcsetWidths)}
        IN  /\ n >= 1
            /\ \A k \in 1..(n - 1) :
                  /\ srcset[k][2] < srcset[k + 1][2]
                  /\ srcset[k][2] \in candidates
                  /\ srcset[k][2] < fnInput.width
            /\ srcset[n] = <<fnInput.src, fnInput.width>>
            /\ (\A c \in candidates : c >= fnInput.width) => n = 1

\* A list with a repeated candidate below the original width, one equal to it
\* and one above it, out of order, gave two entries.
C21_Witness ==
    /\ fnResult.called
    /\ fnInput.fn = "generateSrcset"
    /\ fnInput.width = 3
    /\ fnInput.srcsetWidths = <<4, 2, 2>>
    /\ fnInput.src = UrlAQuery
    /\ fnResult.value = << <<UrlAQuery \o WParamNext \o <<"2">>, 2>>, <<UrlAQuery, 3>> >>

\* C22: in assembled markup the display width is the width override when
\* there is one and the original width otherwise, the height of the aspect
\* ratio is the height override when there is one and otherwise
\* round(originalHeight / originalWidth * displayWidth), and the srcset is
\* made from the original width.
C22_DisplayDimensions ==
    (fnResult.called /\ fnInput.fn = "buildImageHTML") =>
        LET override == fnInput.parsedAlt
            out == fnResult.value
            displayWidth == IF override.width # NoNum THEN override.width
                            ELSE fnInput.originalWidth
            displayHeight ==
                IF override.height # NoNum THEN override.height
                ELSE RoundDiv(fnInput.originalHeight * displayWidth,
                              fnInput.originalWidth)
        IN  /\ out.srcset[Len(out.srcset)] = <<fnInput.src, fnInput.originalWidth>>
            /\ \A k \in 1..Len(out.srcset) : out.srcset[k][2] <= fnInput.originalWidth
            /\ out.tag = "div" =>
                  /\ out.maxWidth = displayWidth
                  /\ out.aspectWidth = displayWidth
                  /\ out.aspectHeight = displayHeight

\* C23: when the dimension fetch gave dimensions and the thumbhash fetch
\* gave nothing, the rule returns a bare img element with the srcset and no
\* wrapper; when it gave a placeholder, the img is wrapped in an element
\* that carries the placeholder as background and the aspect ratio.
C23_PlaceholderOptional ==
    [][\A i \in 1..MaxInFlight :
        LET call == calls[i]
            out == calls'[i].out
            parsed == parseObsidianImageAlt(call.token.content)
            srcset == generateSrcset(call.token.src, call.dim.width,
                                     options.progressive.srcset_widths)
        IN  (Resumed(i) /\ call.dim.has) =>
              IF ~TruthyStr(call.th.url) \/ call.th.url = ""
              THEN /\ out.tag = "img"
                   /\ out.src = call.token.src
                   /\ out.srcset = srcset
                   /\ out.background = NoStr
              ELSE /\ out.tag = "div"
                   /\ out.src = call.token.src
                   /\ out.srcset = srcset
                   /\ out.background = call.th.url
                   /\ out.aspectWidth # NoNum /\ out.aspectHeight # NoNum
    ]_vars

\* C24: a load() that completes after the rule has written an entry with
\* set leaves every entry of the in-memory map as it was: none is removed
\* and none is replaced.
C24_LoadKeepsLiveEntries ==
    [][(LoadCompleted /\ isDirty) =>
          \A k \in DOMAIN cache.props : Lookup(cache', k) = cache.props[k]
    ]_vars

\* C25: when the writeFile of a save() resolves and the map is no longer
\* the one that save() serialized, because a set changed it while the write
\* was pending, the dirty flag is true after the save completes.
C25_DirtyTracksDivergence ==
    [][\A j \in 1..Len(writes) :
          ( /\ writes' = RemoveAt(writes, j)
            /\ file' = FileOf(writes[j].text)
            /\ cache # writes[j].value ) => isDirty'
    ]_vars

\* C26: an eligible reference that misses the cache has both requests
\* issued in the step of the call, before either has settled; each request
\* settles on its own, to a value or to absent, and leaves the other one
\* pending and issued; the rule resumes only when both have settled.
C26_JointConcurrentFetch ==
    [][\A i \in 1..MaxInFlight :
        LET call == calls[i]
            next == calls'[i]
            both(src) == {DimensionRequest(src), ThumbhashRequest(src)}
        IN  /\ (Called(i) /\ next.pc = "fetching") =>
                  /\ next.requests = both(next.token.src)
                  /\ ~next.dim.settled /\ ~next.th.settled
            /\ (Called(i) /\ next.pc = "done") => next.requests = {}
            /\ (call.pc = "fetching" /\ next.pc = "fetching" /\ next # call) =>
                  /\ next.requests = call.requests
                  /\ \/ /\ ~call.dim.settled /\ next.dim.settled
                        /\ next.th = call.th
                     \/ /\ ~call.th.settled /\ next.th.settled
                        /\ next.dim = call.dim
                  /\ next.dim.settled =>
                        (next.dim.has <=> next.dim.width # NoNum)
                  /\ next.out = NoMarkup
            /\ Resumed(i) =>
                  /\ call.dim.settled /\ call.th.settled
                  /\ call.requests = both(call.token.src)
    ]_vars
\* Both requests of a call have settled, the dimension request to absent
\* and the thumbhash request to its value, and the rule has yet to resume.
C26_Witness ==
    \E i \in 1..MaxInFlight :
        /\ calls[i].pc = "fetching"
        /\ calls[i].dim.settled /\ calls[i].th.settled
        /\ ~calls[i].dim.has
        /\ TruthyStr(calls[i].th.url)
        /\ calls[i].requests = {DimensionRequest(calls[i].token.src),
                                ThumbhashRequest(calls[i].token.src)}

\* The placeholder an entry records: the placeholder member of the
\* documented { width, height, placeholder }, else the dataURL member.
EntryPlaceholder(e) ==
    IF e.keys = "width,height,placeholder" THEN e.placeholder ELSE e.dataURL
\* The markup the miss path assembles for token from the metadata that
\* entry e records.
MissMarkup(token, e) ==
    buildImageHTML(parseObsidianImageAlt(token.content), token.src, options,
                   e.width, e.height, PlaceholderUrl([url |-> EntryPlaceholder(e)]))

\* C27: the markup a cache hit returns is the markup the miss path
\* assembles for the same reference, options and metadata, whether the
\* entry was written by an earlier miss or read from a file in the
\* documented format; and the entry a miss writes gives, on a hit, the
\* markup that miss returned.
C27_HitMissEquivalence ==
    [][\A i \in 1..MaxInFlight :
        LET token == calls'[i].token
            got == ImageCache_get(cache, token.src)
            written == ImageCache_get(cache', calls[i].token.src)
        IN  /\ ( /\ Called(i)
                 /\ HandlesProgressive[token.src, options, nodeEnv]
                 /\ hasCache /\ got.threw = "" /\ got.entry # NoEntry )
                  => calls'[i].out = MissMarkup(token, got.entry)
            /\ (Resumed(i) /\ cache' # cache)
                  => /\ written.entry # NoEntry
                     /\ FromCache(calls[i].token, written.entry) = calls'[i].out
    ]_vars

\* C28: the entry the rule writes holds the width and height the dimension
\* fetch gave, whatever overrides the reference carries; and a reference
\* served from an entry has its srcset and its aspect ratio computed from
\* the entry's width and height and its own overrides.
C28_CacheHoldsOriginalDimensions ==
    [][\A i \in 1..MaxInFlight :
        LET call == calls[i]
            key == DecodedKey[call.token.src]
            token == calls'[i].token
            parsed == parseObsidianImageAlt(token.content)
            e == ImageCache_get(cache, token.src).entry
            out == calls'[i].out
        IN  /\ (Resumed(i) /\ cache' # cache) =>
                  /\ call.dim.has /\ key.ok
                  /\ Lookup(cache', key.val).width = call.dim.width
                  /\ Lookup(cache', key.val).height = call.dim.height
            /\ ( /\ Called(i)
                 /\ HandlesProgressive[token.src, options, nodeEnv]
                 /\ hasCache /\ e # NoEntry /\ IsMarkup(out) ) =>
                  /\ out.srcset = generateSrcset(token.src, e.width,
                                                 options.progressive.srcset_widths)
                  /\ out.tag = "div" =>
                        /\ out.aspectWidth =
                              (IF parsed.width >= 1 THEN parsed.width ELSE e.width)
                        /\ out.aspectHeight =
                              (IF parsed.height >= 1 THEN parsed.height
                               ELSE RoundDiv(e.height * out.aspectWidth, e.width))
    ]_vars
\* The rule has written the fetched 1200x800 for the reference photo|300
\* and returned the markup that is 300 wide.
C28_Witness ==
    \E i \in 1..MaxInFlight :
        /\ calls[i].pc = "done"
        /\ calls[i].token = Token(UrlA, AltPhoto300)
        /\ Lookup(cache, UrlA) = RuleEntry(1200, 800, EntryA.dataURL)
        /\ isDirty
        /\ stats.cacheHits = 0
        /\ calls[i].out.tag = "div"
        /\ calls[i].out.maxWidth = 300
====
